---- MODULE Spec2Model ----
(***************************************************************************)
(* Model of the stateful streaming inference pipeline of                   *)
(* noise_suppressor.py: port resolution in OpenVINONoiseSuppressor         *)
(* .__init__, the recurrent state feedback of process_chunk, the offline   *)
(* file loop and the realtime duplex stream of main().                     *)
(*                                                                         *)
(* Port names are sequences of one-character strings so that Python's      *)
(* substring test (in) and str.split are computed, not assumed.            *)
(* Tensors produced by the opaque backend are modelled symbolically: the   *)
(* tensor that inference pass k leaves on output port o is the token       *)
(* <<k, o>>; the zero tensor is <<0, 0>>.  Audio is modelled by sample     *)
(* counts and block offsets, not by sample values.                         *)
(***************************************************************************)
EXTENDS Integers, Sequences, FiniteSets, TLC

\* ---------------------------------------------------------------- bounds
MaxPorts == 3       \* at most this many input ports and output ports
MaxLen == 5         \* file lengths 0..MaxLen samples
MaxPeriods == 2     \* realtime periods delivered by the audio backend
MaxFiles == 2       \* files queued in one batch

\* ------------------------------------------------------------- port names
N_input == <<"i","n","p","u","t">>
N_mic == <<"m","i","c">>
N_inp_state_1 == <<"i","n","p","_","s","t","a","t","e","_","1">>
N_inp_state_10 == <<"i","n","p","_","s","t","a","t","e","_","1","0">>
N_output == <<"o","u","t","p","u","t">>
N_aux == <<"a","u","x">>
N_out_state_1 == <<"o","u","t","_","s","t","a","t","e","_","1">>
N_out_state_10 == <<"o","u","t","_","s","t","a","t","e","_","1","0">>

InNames == {N_input, N_mic, N_inp_state_1, N_inp_state_10}
OutNames == {N_output, N_aux, N_out_state_1, N_out_state_10}

S_state == <<"s","t","a","t","e">>
S_state_ == <<"s","t","a","t","e","_">>

\* Python: sub in s
Contains(sub, s) ==
    \E k \in 1..(Len(s) - Len(sub) + 1) : SubSeq(s, k, k + Len(sub) - 1) = sub

\* Python: s.split(sep)[-1]  (sep = "state_" cannot overlap itself, so the
\* last piece is what follows the rightmost occurrence; s itself if none)
SplitLast(s, sep) ==
    LET occ == {k \in 1..(Len(s) - Len(sep) + 1) : SubSeq(s, k, k + Len(sep) - 1) = sep}
    IN  IF occ = {} THEN s
        ELSE LET k == CHOOSE m \in occ : \A n \in occ : n <= m
             IN  SubSeq(s, k + Len(sep), Len(s))

\* injective sequences over S of length 0..n (tensor names of a model are unique)
InjSeqs(S, n) ==
    UNION {{q \in [1..m -> S] : \A a, b \in 1..m : a # b => q[a] # q[b]} : m \in 0..n}

None == 0
Zeros == <<0, 0>>

\* audio-input shapes: rank 2 [1,N], rank 3 [1,1,N], and a rank the code
\* does not recognise
Shapes == {<<1, 2>>, <<1, 1, 3>>, <<4>>}

VARIABLES
    inputs, outputs,   \* compiled_model.inputs / .outputs (port names, in order)
    audioShape,        \* shape of the model's non-state input ports
    mode,              \* "offline" (args.input_file given) or "realtime"
    fileLen,           \* samples in the input file (after mono/resample)
    pc,                \* position of main()
    audio_input, audio_output, states,   \* engine fields
    BLOCK_SIZE,
    original_len, dataLen, i, output_audio, written,
    cpc, chunk, input_data, results,     \* process_chunk frame
    passes, calls,     \* inference passes executed / process_chunk calls returned
    stream, periodsOut

\* batch_runner.py
VARIABLES
    selected_files,    \* queue: the base name (without extension) of each file
    workers,           \* max_workers of the process pool
    task_pc,           \* position of run_single_file for each queued file
    verdict,           \* what run_single_file returned for each queued file
    temp_in, temp_out, \* indices k whose proc_k_in.wav / proc_k_out.wav exist
    final_out          \* content of Denoised_<base>.wav for each base name

batchVars == <<selected_files, workers, task_pc, verdict, temp_in, temp_out,
               final_out>>

vars == <<inputs, outputs, audioShape, mode, fileLen, pc, audio_input,
          audio_output, states, BLOCK_SIZE, original_len, dataLen, i,
          output_audio, written, cpc, chunk, input_data, results, passes,
          calls, stream, periodsOut>>

\* ----------------------------------------------------------- port resolver
IsStatePort(name) == Contains(S_state, name)

\* line 38
StateId(name) == SplitLast(name, S_state_)

\* line 40: the test applied to an output port for a given state input
OutputMatches(inName, outName) == Contains(S_state_ \o StateId(inName), outName)

\* lines 39-46: first output, in enumeration order, that passes the test
FirstMatch(inName, outs) ==
    LET m == {j \in 1..Len(outs) : OutputMatches(inName, outs[j])}
    IN  IF m = {} THEN None ELSE CHOOSE j \in m : \A n \in m : j <= n

\* lines 31-34: the last non-state input wins (no break)
ResolveAudioInput(ins) ==
    LET a == {k \in 1..Len(ins) : ~IsStatePort(ins[k])}
    IN  IF a = {} THEN None ELSE CHOOSE k \in a : \A n \in a : n <= k

\* lines 48-51: the first non-state output wins (break)
ResolveAudioOutput(outs) ==
    LET a == {k \in 1..Len(outs) : ~IsStatePort(outs[k])}
    IN  IF a = {} THEN None ELSE CHOOSE k \in a : \A n \in a : k <= n

\* lines 31-46: one entry per state input that found an output, input order
RECURSIVE ResolveStates(_, _, _)
ResolveStates(ins, outs, k) ==
    IF k > Len(ins) THEN <<>>
    ELSE LET m == FirstMatch(ins[k], outs)
         IN  (IF IsStatePort(ins[k]) /\ m # None
              THEN <<[input |-> k, output |-> m, buffer |-> Zeros]>>
              ELSE <<>>) \o ResolveStates(ins, outs, k + 1)


\* ------------------------------------------------------------ pure helpers
Min(a, b) == IF a < b THEN a ELSE b

\* lines 117-122
BlockSizeOf(shape) ==
    IF Len(shape) = 3 THEN shape[3]
    ELSE IF Len(shape) = 2 THEN shape[2]
    ELSE 1024

\* line 159
PadLen(L, bs) == bs - (L % bs)

\* variant: np.pad applied without the test of line 160
PaddedLen_Always(L, bs) == L + PadLen(L, bs)

\* lines 160-161: len(data) after the conditional np.pad
PaddedLen(L, bs) == IF PadLen(L, bs) # bs THEN L + PadLen(L, bs) ELSE L

\* line 167: data[i:i+BLOCK_SIZE] of a buffer of n samples
ChunkAt(idx, bs, n) == [start |-> idx, len |-> Min(bs, n - idx)]

\* variant: a loop stride of two blocks
NextIndex_Skip(idx, bs) == idx + 2 * bs

\* line 166: next value of range(0, len(data), BLOCK_SIZE)
NextIndex(idx, bs) == idx + bs

\* line 172: len(np.concatenate(output_audio))
RECURSIVE ConcatLen(_)
ConcatLen(out) == IF out = <<>> THEN 0 ELSE Head(out).len + ConcatLen(Tail(out))

\* variant: the slice of line 172 left out
Truncate_None(n, L) == n

\* line 172: len(x[:original_len]) for len(x) = n
Truncate(n, L) == Min(n, L)

\* lines 70-74: the tensors bound to the input ports
BindInputs(ai, sts, ch) ==
    [p \in {ai} \cup {sts[j].input : j \in DOMAIN sts} |->
        IF p = ai THEN <<ch.start, ch.len>>
        ELSE LET j == CHOOSE n \in DOMAIN sts : sts[n].input = p IN sts[j].buffer]

\* line 77: output tensors of inference pass k, one per output port
InferResults(k, outs) == [o \in 1..Len(outs) |-> <<k, o>>]

\* variant: the feedback loop starts at the second state
UpdateStates_SkipFirst(sts, res) ==
    [j \in DOMAIN sts |->
        IF j = 1 THEN sts[j] ELSE [sts[j] EXCEPT !.buffer = res[sts[j].output]]]

\* lines 83-84
UpdateStates(sts, res) ==
    [j \in DOMAIN sts |-> [sts[j] EXCEPT !.buffer = res[sts[j].output]]]

\* lines 80, 87: the flat block returned for the chunk (the model maps a
\* block of N samples to a block of N samples)
Denoised(res, ao, ch) == [tensor |-> res[ao], src |-> ch.start, len |-> ch.len]

NoFile == -1
NoChunk == [start |-> 0, len |-> 0]

\* base names of queued files, and the content of an output file: the
\* index of the task that produced it, Old for a file left by an earlier
\* batch, Absent when the file does not exist
Bases == {"a", "b"}
Old == 0
Absent == -2
NoVerdict == [text |-> "", exc |-> ""]

\* the batch variables while no batch runs
BatchIdle ==
    /\ selected_files = <<>> /\ workers = 1
    /\ task_pc = <<>> /\ verdict = <<>>
    /\ temp_in = {} /\ temp_out = {}
    /\ final_out = [b \in Bases |-> Absent]

\* ------------------------------------------------------------------- Init
Init ==
    /\ inputs \in InjSeqs(InNames, MaxPorts)
    /\ outputs \in InjSeqs(OutNames, MaxPorts)
    /\ audioShape \in Shapes
    /\ mode \in {"offline", "realtime"}
    /\ fileLen \in 0..MaxLen
    /\ (mode = "realtime" => fileLen = 0)
    /\ pc = "start"
    /\ audio_input = None /\ audio_output = None /\ states = <<>>
    /\ BLOCK_SIZE = 0
    /\ original_len = 0 /\ dataLen = 0 /\ i = 0 /\ output_audio = <<>>
    /\ written = NoFile
    /\ cpc = "idle" /\ chunk = NoChunk /\ input_data = <<>> /\ results = <<>>
    /\ passes = 0 /\ calls = 0
    /\ stream = "none" /\ periodsOut = 0
    /\ BatchIdle

engineVars == <<audio_input, audio_output, states>>
fileVars == <<original_len, dataLen, i, output_audio, written>>
frameVars == <<cpc, chunk, input_data, results>>
modelVars == <<inputs, outputs, audioShape, mode, fileLen>>

\* ---------------------------------------------------------------- actions
\* lines 104-108 with __init__ (13-53): model load/compile may raise, which
\* main reports and exits on; otherwise the ports are resolved
Construct ==
    /\ pc = "start"
    /\ \/ /\ pc' = "exit_init"
          /\ UNCHANGED engineVars
       \/ /\ audio_input' = ResolveAudioInput(inputs)
          /\ states' = ResolveStates(inputs, outputs, 1)
          /\ audio_output' = ResolveAudioOutput(outputs)
          /\ pc' = "constructed"
    /\ UNCHANGED batchVars
    /\ UNCHANGED <<modelVars, BLOCK_SIZE, fileVars, frameVars, passes, calls,
                   stream, periodsOut>>

\* lines 112-122: suppressor.audio_input.shape raises AttributeError on None
DetermineBlockSize ==
    /\ pc = "constructed"
    /\ IF audio_input = None
       THEN pc' = "crash_attr" /\ UNCHANGED BLOCK_SIZE
       ELSE pc' = "ready" /\ BLOCK_SIZE' = BlockSizeOf(audioShape)
    /\ UNCHANGED batchVars
    /\ UNCHANGED <<modelVars, engineVars, fileVars, frameVars, passes, calls,
                   stream, periodsOut>>

\* lines 125-163: usage errors exit, sf.read may raise, otherwise the data
\* is read, padded and the loop is set up
StartFile ==
    /\ pc = "ready" /\ mode = "offline"
    /\ \/ pc' = "exit_usage" /\ UNCHANGED fileVars
       \/ pc' = "crash_read" /\ UNCHANGED fileVars
       \/ /\ original_len' = fileLen
          /\ dataLen' = PaddedLen(fileLen, BLOCK_SIZE)
          /\ i' = 0
          /\ output_audio' = <<>>
          /\ UNCHANGED written
          /\ pc' = "loop"
    /\ UNCHANGED batchVars
    /\ UNCHANGED <<modelVars, engineVars, BLOCK_SIZE, frameVars, passes, calls,
                   stream, periodsOut>>

\* lines 166-168: next iteration calls process_chunk, or the loop ends
LoopStep ==
    /\ pc = "loop" /\ cpc = "idle"
    /\ IF i < dataLen
       THEN /\ chunk' = ChunkAt(i, BLOCK_SIZE, dataLen)
            /\ cpc' = "enter"
            /\ pc' = "in_chunk"
       ELSE /\ pc' = "finish"
            /\ UNCHANGED <<chunk, cpc>>
    /\ UNCHANGED batchVars
    /\ UNCHANGED <<modelVars, engineVars, BLOCK_SIZE, fileVars, input_data,
                   results, passes, calls, stream, periodsOut>>

\* lines 65-74
Bind ==
    /\ cpc = "enter"
    /\ input_data' = BindInputs(audio_input, states, chunk)
    /\ cpc' = "bound"
    /\ UNCHANGED batchVars
    /\ UNCHANGED <<modelVars, engineVars, BLOCK_SIZE, fileVars, chunk, results,
                   passes, calls, stream, periodsOut, pc>>

\* variant: the offline loop swallows the exception and goes on to write
Raise_Swallow(kind) ==
    /\ cpc' = "idle"
    /\ IF mode = "offline"
       THEN pc' = "finish" /\ UNCHANGED stream
       ELSE stream' = "aborted" /\ UNCHANGED pc

\* what the exception leaving process_chunk does to the caller: offline it
\* leaves main() uncaught; in the stream callback it aborts the stream
Raise(kind) ==
    /\ cpc' = "idle"
    /\ IF mode = "offline"
       THEN pc' = kind /\ UNCHANGED stream
       ELSE stream' = "aborted" /\ UNCHANGED pc

\* line 77, success
InferOk ==
    /\ cpc = "bound"
    /\ passes' = passes + 1
    /\ results' = InferResults(passes + 1, outputs)
    /\ cpc' = "inferred"
    /\ UNCHANGED batchVars
    /\ UNCHANGED <<modelVars, engineVars, BLOCK_SIZE, fileVars, chunk,
                   input_data, calls, stream, periodsOut, pc>>

\* variant: the state buffers are cleared when the backend raises
InferFail_Reset ==
    /\ cpc = "bound"
    /\ passes' = passes + 1
    /\ Raise("crash_infer")
    /\ states' = [j \in DOMAIN states |-> [states[j] EXCEPT !.buffer = Zeros]]
    /\ UNCHANGED batchVars
    /\ UNCHANGED <<modelVars, audio_input, audio_output, BLOCK_SIZE, fileVars,
                   chunk, input_data, results, calls, periodsOut>>

\* line 77, the backend raises
InferFail ==
    /\ cpc = "bound"
    /\ passes' = passes + 1
    /\ Raise("crash_infer")
    /\ UNCHANGED batchVars
    /\ UNCHANGED <<modelVars, engineVars, BLOCK_SIZE, fileVars, chunk,
                   input_data, results, calls, periodsOut>>

\* lines 80-87 and the caller's use of the result (line 168 / line 212)
Return ==
    /\ cpc = "inferred"
    /\ IF audio_output = None
       THEN /\ Raise("crash_lookup")
            /\ UNCHANGED <<states, fileVars, calls, periodsOut>>
       ELSE /\ states' = UpdateStates(states, results)
            /\ calls' = calls + 1
            /\ cpc' = "idle"
            /\ IF mode = "offline"
               THEN /\ output_audio' = Append(output_audio,
                                              Denoised(results, audio_output, chunk))
                    /\ i' = NextIndex(i, BLOCK_SIZE)
                    /\ pc' = "loop"
                    /\ UNCHANGED <<original_len, dataLen, written, stream, periodsOut>>
               ELSE /\ periodsOut' = periodsOut + 1
                    /\ UNCHANGED <<fileVars, stream, pc>>
    /\ UNCHANGED batchVars
    /\ UNCHANGED <<modelVars, audio_input, audio_output, BLOCK_SIZE, chunk,
                   input_data, results, passes>>

\* lines 172-187: np.concatenate raises on an empty list; sf.write may raise
Finish ==
    /\ pc = "finish"
    /\ IF output_audio = <<>>
       THEN pc' = "crash_concat" /\ UNCHANGED written
       ELSE \/ /\ written' = Truncate(ConcatLen(output_audio), original_len)
               /\ pc' = "done"
            \/ pc' = "crash_write" /\ UNCHANGED written
    /\ UNCHANGED batchVars
    /\ UNCHANGED <<modelVars, engineVars, BLOCK_SIZE, original_len, dataLen, i,
                   output_audio, frameVars, passes, calls, stream, periodsOut>>

\* lines 214-221: the stream is opened, or opening raises (reported, 229-230)
OpenStream ==
    /\ pc = "ready" /\ mode = "realtime"
    /\ \/ stream' = "open" /\ pc' = "sleeping"
       \/ pc' = "rt_error" /\ UNCHANGED stream
    /\ UNCHANGED batchVars
    /\ UNCHANGED <<modelVars, engineVars, BLOCK_SIZE, fileVars, frameVars,
                   passes, calls, periodsOut>>

\* variant: a period is delivered while the previous callback is running
Callback_Reentrant ==
    /\ stream = "open"
    /\ periodsOut < MaxPeriods
    /\ chunk' = [start |-> calls * BLOCK_SIZE, len |-> BLOCK_SIZE]
    /\ cpc' = "enter"
    /\ UNCHANGED batchVars
    /\ UNCHANGED <<modelVars, engineVars, BLOCK_SIZE, fileVars, input_data,
                   results, passes, calls, stream, periodsOut, pc>>

\* lines 194-204: the audio backend delivers one period at a time
Callback ==
    /\ stream = "open" /\ cpc = "idle"
    /\ periodsOut < MaxPeriods
    /\ chunk' = [start |-> calls * BLOCK_SIZE, len |-> BLOCK_SIZE]
    /\ cpc' = "enter"
    /\ UNCHANGED batchVars
    /\ UNCHANGED <<modelVars, engineVars, BLOCK_SIZE, fileVars, input_data,
                   results, passes, calls, stream, periodsOut, pc>>

\* lines 224-227: KeyboardInterrupt, or another exception, in the main thread
Interrupt ==
    /\ pc = "sleeping"
    /\ pc' \in {"closing_kbd", "closing_exc"}
    /\ UNCHANGED batchVars
    /\ UNCHANGED <<modelVars, engineVars, BLOCK_SIZE, fileVars, frameVars,
                   passes, calls, stream, periodsOut>>

\* line 216 (__exit__) then 227-230: the stream is closed once no callback
\* is running, then the stop or the error is reported
CloseStream ==
    /\ pc \in {"closing_kbd", "closing_exc"}
    /\ cpc = "idle"
    /\ stream' = "closed"
    /\ pc' = IF pc = "closing_kbd" THEN "stopped" ELSE "rt_error"
    /\ UNCHANGED batchVars
    /\ UNCHANGED <<modelVars, engineVars, BLOCK_SIZE, fileVars, frameVars,
                   passes, calls, periodsOut>>

Next ==
    \/ Construct
    \/ DetermineBlockSize
    \/ StartFile
    \/ LoopStep
    \/ Bind
    \/ InferOk
    \/ InferFail
    \/ Return
    \/ Finish
    \/ OpenStream
    \/ Callback
    \/ Interrupt
    \/ CloseStream

Spec == Init /\ [][Next]_vars


\* ------------------------------------------------------------- properties
StateInputs == {k \in 1..Len(inputs) : IsStatePort(inputs[k])}
AudioInputs == {k \in 1..Len(inputs) : ~IsStatePort(inputs[k])}
AudioOutputs == {k \in 1..Len(outputs) : ~IsStatePort(outputs[k])}
Constructed == pc \notin {"start", "exit_init"}
Padded == pc \in {"loop", "in_chunk", "finish", "done", "crash_infer",
                  "crash_lookup", "crash_concat", "crash_write"}

\* C1: in a sequence of successful process_chunk calls the tensors bound to
\* the state-input ports of call k+1 are the state-output tensors that call
\* k produced (zeros for the first call), and a call that returns has
\* overwritten every state buffer with its own state-output tensor, the
\* buffers changing in no other step.
C1_StateThreading ==
    /\ [](cpc = "bound" =>
            /\ (calls > 0 => results = InferResults(calls, outputs))
            /\ \A j \in DOMAIN states :
                  input_data[states[j].input] =
                      IF calls = 0 THEN Zeros ELSE <<calls, states[j].output>>)
    /\ [][/\ (calls' = calls + 1 =>
                \A j \in DOMAIN states :
                    /\ states'[j].buffer = <<passes, states[j].output>>
                    /\ states'[j].buffer # states[j].buffer)
          /\ (calls' = calls /\ pc # "start" => states' = states)]_vars

C1_Witness ==
    /\ cpc = "bound" /\ calls >= 1 /\ Len(states) = 2
    /\ states[1].output # states[2].output

\* C2: when the inference pass raises, the call ends with an error, every
\* state buffer keeps its pre-call value and binding the same chunk again
\* gives the same inputs.
C2_FailureKeepsState ==
    [][(cpc = "bound" /\ cpc' = "idle") =>
          /\ states' = states
          /\ (pc' = "crash_infer" \/ stream' = "aborted")
          /\ BindInputs(audio_input', states', chunk') = input_data]_vars

C2_Witness ==
    /\ pc = "crash_infer" /\ calls >= 1 /\ states # <<>>
    /\ states[1].buffer # Zeros

\* C3: offline, the blocks handed to process_chunk are the consecutive
\* non-overlapping blocks of BLOCK_SIZE samples of the padded data, in
\* increasing order, each by exactly one inference pass, and the outputs
\* are collected in that order.
C3_BlocksInOrder ==
    (mode = "offline" /\ Padded) =>
        /\ \A j \in 1..Len(output_audio) :
              /\ output_audio[j].src = (j - 1) * BLOCK_SIZE
              /\ output_audio[j].len = BLOCK_SIZE
              /\ output_audio[j].tensor[1] = j
        /\ calls = Len(output_audio)
        /\ passes \in {calls, calls + 1}
        /\ (cpc # "idle" =>
              /\ chunk = [start |-> calls * BLOCK_SIZE, len |-> BLOCK_SIZE]
              /\ chunk.start + chunk.len <= dataLen)
        /\ (pc \in {"finish", "done", "crash_concat", "crash_write"} =>
              Len(output_audio) * BLOCK_SIZE = dataLen)

C3_Witness == pc = "finish" /\ Len(output_audio) = 3

\* C4 as stated: BLOCK_SIZE - (L mod BLOCK_SIZE) zeros are appended for
\* every length L, a full block when L is a multiple of BLOCK_SIZE.
C4_PadAlways ==
    Padded => dataLen = original_len + (BLOCK_SIZE - (original_len % BLOCK_SIZE))

\* C4 amended: BLOCK_SIZE - (L mod BLOCK_SIZE) zeros are appended when L is
\* not a multiple of BLOCK_SIZE and none when it is, so the padded length
\* is the least multiple of BLOCK_SIZE that is at least L.
C4_PadToMultiple ==
    Padded =>
        /\ dataLen - original_len =
              IF original_len % BLOCK_SIZE = 0 THEN 0
              ELSE BLOCK_SIZE - (original_len % BLOCK_SIZE)
        /\ dataLen % BLOCK_SIZE = 0
        /\ dataLen < original_len + BLOCK_SIZE

C4_Witness ==
    /\ pc = "finish" /\ original_len > 0 /\ original_len % BLOCK_SIZE = 0
    /\ dataLen = original_len /\ Len(output_audio) * BLOCK_SIZE = original_len

\* C5: for L not a multiple of BLOCK_SIZE the concatenated output has
\* L + (BLOCK_SIZE - L mod BLOCK_SIZE) samples and the file written has L.
C5_RoundTrip ==
    (pc = "done" /\ original_len % BLOCK_SIZE # 0) =>
        /\ ConcatLen(output_audio) =
              original_len + (BLOCK_SIZE - (original_len % BLOCK_SIZE))
        /\ written = original_len

C5_Witness ==
    /\ pc = "done" /\ original_len % BLOCK_SIZE # 0
    /\ Len(output_audio) >= 2 /\ written = original_len

\* C6: an engine is never constructed with a state input that has no
\* paired buffer; such a model is refused.
C6_UnmatchedRefused ==
    pc = "constructed" =>
        \A k \in StateInputs : \E j \in DOMAIN states : states[j].input = k

\* C7: the input port and the output port of every state pair carry the
\* same state identifier.
C7_SameIdentifier ==
    Constructed =>
        \A j \in DOMAIN states :
            StateId(inputs[states[j].input]) = StateId(outputs[states[j].output])

\* C8: a model with more than one non-state input or more than one
\* non-state output is refused.
C8_AmbiguousRefused ==
    (Cardinality(AudioInputs) > 1 \/ Cardinality(AudioOutputs) > 1) =>
        pc \in {"start", "exit_init"}

\* C9: with no non-state input or no non-state output, no process_chunk
\* call is started and no inference pass is executed.
C9_NoProcessing ==
    (AudioInputs = {} \/ AudioOutputs = {}) => (cpc = "idle" /\ passes = 0)

\* C10: offline, once a process_chunk call has failed no further inference
\* pass runs and no output file is written.
ChunkFailed == mode = "offline" /\ cpc = "idle" /\ passes > calls

C10_AbortOnFailure ==
    /\ [](ChunkFailed => written = NoFile)
    /\ [][ChunkFailed => (passes' = passes /\ calls' = calls /\ written' = written)]_vars

C10_Witness ==
    /\ ChunkFailed /\ pc = "crash_infer"
    /\ Len(output_audio) >= 1 /\ i + BLOCK_SIZE < dataLen


\* C11: process_chunk calls never overlap.  A call starts only when no call
\* is in flight; offline it is started by the block loop, in realtime by
\* the stream callback while the main thread stays where it is; and while
\* a call is in flight the state buffers are the ones it bound.
CallStarts == cpc' = "enter" /\ cpc # "enter"

C11_NoOverlap ==
    /\ [][CallStarts =>
            /\ cpc = "idle"
            /\ \/ /\ mode = "offline" /\ stream = "none"
                  /\ pc = "loop" /\ pc' = "in_chunk"
               \/ /\ mode = "realtime" /\ stream = "open"
                  /\ pc \in {"sleeping", "closing_kbd", "closing_exc"}
                  /\ pc' = pc]_vars
    /\ [](cpc \in {"bound", "inferred"} =>
            \A j \in DOMAIN states :
                input_data[states[j].input] = states[j].buffer)

C11_Witness ==
    /\ mode = "realtime" /\ stream = "open" /\ pc = "sleeping"
    /\ cpc = "bound" /\ calls >= 1 /\ states # <<>>


\* ------------------------------------------------- realtime specification
\* main() without -if: the threads keep running, so a callback that has
\* started runs to its end and the with-block's exit closes the stream;
\* the interrupt and the arrival of periods are external and not fair.
RtInit == Init /\ mode = "realtime"

RtNext ==
    \/ Construct
    \/ DetermineBlockSize
    \/ OpenStream
    \/ Callback
    \/ Bind
    \/ InferOk
    \/ InferFail
    \/ Return
    \/ Interrupt
    \/ CloseStream

RtSpec ==
    /\ RtInit /\ [][RtNext]_vars
    /\ WF_vars(Bind) /\ WF_vars(InferOk \/ InferFail) /\ WF_vars(Return)
    /\ WF_vars(CloseStream)

\* an exception other than the interrupt was raised while the stream was
\* open: in the main thread (line 225) or inside the callback (line 204)
ExceptionRaised == pc = "closing_exc" \/ stream = "aborted"

\* C12: an interrupt while the stream is open leads to the stream closed
\* and a clean stop, never an error; any other exception raised while the
\* stream is open leads to the error reported and the stream closed; and
\* no callback runs once the stream is closed.
C12_Teardown ==
    /\ (pc = "closing_kbd") ~> (pc = "stopped" /\ stream = "closed")
    /\ [][pc = "closing_kbd" => pc' \in {"closing_kbd", "stopped"}]_vars
    /\ ExceptionRaised ~> (pc = "rt_error" /\ stream = "closed")
    /\ [](stream = "closed" => cpc = "idle")
    /\ [][stream = "closed" => (cpc' = "idle" /\ passes' = passes)]_vars


\* ---------------------------------------------------- batch_runner.py
\* run_batch (131-148) submits run_single_file(f, script, model, out_dir, k)
\* for the k-th queued file; at most `workers` of them run at a time.  The
\* files are temp_in = proc_k_in.wav, temp_out = proc_k_out.wav and
\* final_out = Denoised_<base>.wav (13-15).
Tasks == DOMAIN task_pc
Running == {k \in Tasks : task_pc[k] \notin {"queued", "done"}}

Success == [text |-> "SUCCESS", exc |-> ""]
Error(e) == [text |-> "ERROR", exc |-> e]
Returned(v) == IF v = NoVerdict THEN [text |-> "None", exc |-> ""] ELSE v

BatchInit ==
    /\ inputs = <<>> /\ outputs = <<>> /\ audioShape = <<4>>
    /\ mode = "offline" /\ fileLen = 0
    /\ pc = "start"
    /\ audio_input = None /\ audio_output = None /\ states = <<>>
    /\ BLOCK_SIZE = 0
    /\ original_len = 0 /\ dataLen = 0 /\ i = 0 /\ output_audio = <<>>
    /\ written = NoFile
    /\ cpc = "idle" /\ chunk = NoChunk /\ input_data = <<>> /\ results = <<>>
    /\ passes = 0 /\ calls = 0
    /\ stream = "none" /\ periodsOut = 0
    /\ selected_files \in UNION {[1..n -> Bases] : n \in 1..MaxFiles}
    /\ workers \in 1..MaxFiles
    /\ task_pc = [k \in DOMAIN selected_files |-> "queued"]
    /\ verdict = [k \in DOMAIN selected_files |-> NoVerdict]
    /\ temp_in = {} /\ temp_out = {}
    /\ final_out \in [Bases -> {Absent, Old}]

\* control passes to the except clause (33-34): the verdict is the ERROR text
Except(k, e) ==
    /\ verdict' = [verdict EXCEPT ![k] = Error(e)]
    /\ task_pc' = [task_pc EXCEPT ![k] = "finally"]

\* lines 143-144 and 18-19: a pool process takes the task; psutil may raise
StartTask(k) ==
    /\ task_pc[k] = "queued"
    /\ Cardinality(Running) < workers
    /\ \/ task_pc' = [task_pc EXCEPT ![k] = "ffmpeg"] /\ UNCHANGED verdict
       \/ Except(k, "psutil")
    /\ UNCHANGED <<vars, selected_files, workers, temp_in, temp_out, final_out>>

\* lines 22-23: ffmpeg writes temp_in, or exits non-zero (check=True raises)
Ffmpeg(k) ==
    /\ task_pc[k] = "ffmpeg"
    /\ \/ /\ temp_in' = temp_in \cup {k}
          /\ task_pc' = [task_pc EXCEPT ![k] = "script"]
          /\ UNCHANGED verdict
       \/ Except(k, "ffmpeg") /\ UNCHANGED temp_in
    /\ UNCHANGED <<vars, selected_files, workers, temp_out, final_out>>

\* lines 26-27: the inference script exits 0 with or without having written
\* temp_out, or exits non-zero (check=True raises)
Script(k) ==
    /\ task_pc[k] = "script"
    /\ \/ /\ temp_out' \in {temp_out \cup {k}, temp_out}
          /\ task_pc' = [task_pc EXCEPT ![k] = "check"]
          /\ UNCHANGED verdict
       \/ Except(k, "script") /\ UNCHANGED temp_out
    /\ UNCHANGED <<vars, selected_files, workers, temp_in, final_out>>

\* line 29 and the test of line 30: without temp_out the try block ends
\* with no return statement
CheckOut(k) ==
    /\ task_pc[k] = "check"
    /\ task_pc' = [task_pc EXCEPT ![k] =
          IF k \notin temp_out THEN "finally"
          ELSE IF final_out[selected_files[k]] # Absent THEN "remove"
          ELSE "rename"]
    /\ UNCHANGED <<vars, selected_files, workers, verdict, temp_in, temp_out,
                   final_out>>

\* line 30: os.remove(final_out) raises when the file is no longer there
RemoveFinal(k) ==
    /\ task_pc[k] = "remove"
    /\ IF final_out[selected_files[k]] = Absent
       THEN Except(k, "remove") /\ UNCHANGED final_out
       ELSE /\ final_out' = [final_out EXCEPT ![selected_files[k]] = Absent]
            /\ task_pc' = [task_pc EXCEPT ![k] = "rename"]
            /\ UNCHANGED verdict
    /\ UNCHANGED <<vars, selected_files, workers, temp_in, temp_out>>

\* lines 31-32: os.rename raises when final_out exists (the worker runs on
\* Windows: line 19 uses a Windows-only priority class); otherwise the
\* file is moved and SUCCESS is returned
Rename(k) ==
    /\ task_pc[k] = "rename"
    /\ IF final_out[selected_files[k]] # Absent
       THEN Except(k, "rename") /\ UNCHANGED <<final_out, temp_out>>
       ELSE /\ final_out' = [final_out EXCEPT ![selected_files[k]] = k]
            /\ temp_out' = temp_out \ {k}
            /\ verdict' = [verdict EXCEPT ![k] = Success]
            /\ task_pc' = [task_pc EXCEPT ![k] = "finally"]
    /\ UNCHANGED <<vars, selected_files, workers, temp_in>>

\* lines 35-37, then the function returns (None if no return was executed)
Finally(k) ==
    /\ task_pc[k] = "finally"
    /\ temp_in' = temp_in \ {k}
    /\ temp_out' = temp_out \ {k}
    /\ verdict' = [verdict EXCEPT ![k] = Returned(verdict[k])]
    /\ task_pc' = [task_pc EXCEPT ![k] = "done"]
    /\ UNCHANGED <<vars, selected_files, workers, final_out>>

BatchNext ==
    \/ \E k \in Tasks : StartTask(k)
    \/ \E k \in Tasks : Ffmpeg(k)
    \/ \E k \in Tasks : Script(k)
    \/ \E k \in Tasks : CheckOut(k)
    \/ \E k \in Tasks : RemoveFinal(k)
    \/ \E k \in Tasks : Rename(k)
    \/ \E k \in Tasks : Finally(k)

BatchSpec == BatchInit /\ [][BatchNext]_<<vars, batchVars>>

BatchDone == \A k \in Tasks : task_pc[k] = "done"

\* C13: every run_single_file call returns a SUCCESS or an ERROR string.
C13_OneVerdict ==
    \A k \in Tasks :
        task_pc[k] = "done" => verdict[k].text \in {"SUCCESS", "ERROR"}

\* C16: when the batch is complete every SUCCESS verdict has its own final
\* output file, still holding that task's content, and no task failed in
\* the exists/remove/rename sequence.
C16_OutputsKept ==
    BatchDone =>
        \A k \in Tasks :
            /\ verdict[k].text = "SUCCESS" => final_out[selected_files[k]] = k
            /\ verdict[k].exc \notin {"remove", "rename"}


\* ---------------------------------------------- offline file specification
\* main() with -if on a well-formed model (one audio input, one audio
\* output, one state pair), including the model-mandated rate: 3.2 s at
\* SAMPLE_RATE with a block of 1024 samples.
SAMPLE_RATE == 16000
E2ELen == (SAMPLE_RATE * 32) \div 10
FileShapes == {<<1, 2>>, <<1, 1, 3>>, <<1, 1, 1024>>}

FileInit ==
    /\ inputs = <<N_input, N_inp_state_1>>
    /\ outputs = <<N_output, N_out_state_1>>
    /\ audioShape \in FileShapes
    /\ mode = "offline"
    /\ fileLen \in (0..MaxLen) \cup {E2ELen}
    /\ (fileLen = E2ELen => audioShape = <<1, 1, 1024>>)
    /\ pc = "start"
    /\ audio_input = None /\ audio_output = None /\ states = <<>>
    /\ BLOCK_SIZE = 0
    /\ original_len = 0 /\ dataLen = 0 /\ i = 0 /\ output_audio = <<>>
    /\ written = NoFile
    /\ cpc = "idle" /\ chunk = NoChunk /\ input_data = <<>> /\ results = <<>>
    /\ passes = 0 /\ calls = 0
    /\ stream = "none" /\ periodsOut = 0
    /\ BatchIdle

FileNext ==
    \/ Construct
    \/ DetermineBlockSize
    \/ StartFile
    \/ LoopStep
    \/ Bind
    \/ InferOk
    \/ InferFail
    \/ Return
    \/ Finish

FileSpec == FileInit /\ [][FileNext]_vars

CeilDiv(a, b) == (a + b - 1) \div b

\* C14: an input of L > 0 samples is processed in ceil(L / BLOCK_SIZE)
\* process_chunk calls; 51200 samples with a block of 1024 take exactly 50
\* calls and give an output of 51200 samples.
C14_BlockCount ==
    /\ (pc \in {"finish", "done"} /\ original_len > 0) =>
          /\ calls = CeilDiv(original_len, BLOCK_SIZE)
          /\ passes = calls
    /\ (pc \in {"finish", "done"} /\ original_len = 51200 /\ BLOCK_SIZE = 1024) =>
          calls = 50
    /\ (pc = "done" /\ original_len = 51200) => written = 51200

C14_Witness ==
    /\ pc = "done" /\ original_len = 51200 /\ BLOCK_SIZE = 1024
    /\ calls = 50 /\ Len(output_audio) = 50 /\ written = 51200

\* C15: for every input length, the empty input included, the offline
\* pipeline reaches the write step without raising, never concatenates an
\* empty list of blocks, and writes exactly L samples.
C15_AnyLength ==
    /\ pc # "crash_concat"
    /\ (pc = "finish" => output_audio # <<>>)
    /\ (pc = "done" => written = original_len)

====
